---- MODULE Spec2Model ----
(***************************************************************************)
(* Model of MCP_1copilot: the session registry of OneCApiClient            *)
(* (api_client.py) and its SSE stream parser (_parse_sse_response).        *)
(*                                                                         *)
(* Four specifications share the module:                                   *)
(*   Spec / SpecConc - the session registry driven by tool invocations     *)
(*                     (Spec: one caller at a time, SpecConc: several      *)
(*                     callers interleaving at the awaits on the remote).  *)
(*   SpecParse       - _parse_sse_response run line by line over every     *)
(*                     bounded line sequence.                              *)
(*   SpecTool        - handle_call_tool (mcp_server.py): lazy              *)
(*                     initialisation, dispatch, acquire, send, and the    *)
(*                     error text of a failed invocation.                  *)
(***************************************************************************)
EXTENDS Integers, Sequences, FiniteSets, TLC

\* ---------------------------------------------------------------- bounds
MaxTime  == 3     \* the clock runs over 0..MaxTime
MaxIds   == 2     \* conversation ids the remote service can issue
MaxCap   == 2     \* max_active_sessions is drawn from 1..MaxCap
MaxTTL   == 2     \* session_ttl is drawn from 1..MaxTTL
MaxLines == 3     \* length of the SSE line sequences

Tasks == {"t1", "t2"}          \* concurrently running callers

VARIABLES
    sessions,             \* OneCApiClient.sessions: dict in insertion order
    now,                  \* datetime.now()
    next_uuid,            \* next conversation uuid the remote will issue
    max_active_sessions,  \* Config.max_active_sessions
    session_ttl,          \* Config.session_ttl
    task,                 \* per caller: the coroutine's position and locals
    last,                 \* the step just taken and what it returned
    lines,                \* response.aiter_lines()
    pos,                  \* number of lines read so far
    full_text,            \* accumulator of _parse_sse_response
    parse_pc,             \* "loop" | "done"
    answer,               \* value returned by _parse_sse_response
    server,               \* OneCMcpServer: is config / api_client set
    call                  \* the tool invocation being handled

vars == <<sessions, now, next_uuid, max_active_sessions, session_ttl, task,
          last, lines, pos, full_text, parse_pc, answer, server, call>>

storeVars  == <<sessions, now, next_uuid, max_active_sessions, session_ttl,
                task, last>>
parseVars  == <<lines, pos, full_text, parse_pc, answer>>
toolVars   == <<server, call>>

\* ------------------------------------------------------- session records

\* ConversationSession(conversation_id=id): created_at and last_used both
\* default to the time of construction.
ConversationSession(id, t) ==
    [conversation_id |-> id, created_at |-> t, last_used |-> t]

\* ConversationSession.update_usage(): last_used becomes the current time.
update_usage(s, t) == [s EXCEPT !.last_used = t]

\* ------------------------------------------------- dict (insertion order)

\* self.sessions.keys()
Keys(d) == {d[i].conversation_id : i \in 1..Len(d)}

\* position of key k in the dict
IndexOf(d, k) == CHOOSE i \in 1..Len(d) : d[i].conversation_id = k

\* del self.sessions[k]
DelKey(d, k) ==
    LET i == IndexOf(d, k)
    IN  SubSeq(d, 1, i - 1) \o SubSeq(d, i + 1, Len(d))

\* self.sessions[k] = v : an existing key keeps its position, a new key is
\* appended.
SetKey(d, k, v) ==
    IF k \in Keys(d) THEN [d EXCEPT ![IndexOf(d, k)] = v]
    ELSE Append(d, v)

\* variant: max() is used where min() is meant
OldestSessionIdByMax(d) ==
    LET i == CHOOSE i \in 1..Len(d) :
                 /\ \A j \in 1..Len(d) : d[i].last_used >= d[j].last_used
                 /\ \A j \in 1..(i - 1) : d[j].last_used < d[i].last_used
    IN  d[i].conversation_id

\* min(self.sessions.keys(), key=last_used): the first key, in iteration
\* order, whose last_used is minimal.   (api_client.py:184-187)
OldestSessionId(d) ==
    LET i == CHOOSE i \in 1..Len(d) :
                 /\ \A j \in 1..Len(d) : d[i].last_used <= d[j].last_used
                 /\ \A j \in 1..(i - 1) : d[j].last_used > d[i].last_used
    IN  d[i].conversation_id

\* max(self.sessions.keys(), key=last_used): the first key, in iteration
\* order, whose last_used is maximal.   (api_client.py:192-195)
RecentSessionId(d) ==
    LET i == CHOOSE i \in 1..Len(d) :
                 /\ \A j \in 1..Len(d) : d[i].last_used >= d[j].last_used
                 /\ \A j \in 1..(i - 1) : d[j].last_used < d[i].last_used
    IN  d[i].conversation_id

\* ------------------------------------------------- _cleanup_old_sessions

\* variant: the comparison with the TTL is not strict
IsExpiredAtTTL(s, t, ttl) == t - s.last_used >= ttl

\* current_time - session.last_used > ttl_delta     (api_client.py:206)
IsExpired(s, t, ttl) == t - s.last_used > ttl

\* expired_sessions = [session_id for ... if expired]  (api_client.py:204-207)
ExpiredSessions(d, t, ttl) ==
    LET exp == SelectSeq(d, LAMBDA s : IsExpired(s, t, ttl))
    IN  [i \in 1..Len(exp) |-> exp[i].conversation_id]

RECURSIVE DeleteAll(_, _)
\* for session_id in expired_sessions: del self.sessions[session_id]
DeleteAll(d, ids) ==
    IF ids = <<>> THEN d
    ELSE DeleteAll(DelKey(d, Head(ids)), Tail(ids))

\* _cleanup_old_sessions observing current_time = t
CleanupOldSessions(d, t, ttl) == DeleteAll(d, ExpiredSessions(d, t, ttl))

\* --------------------------------------------------------------- events

NoId == 0

\* The step just taken: which operation (op) of which caller (task), how it
\* ended (status: "pending" while suspended on the remote), the id it
\* returned or touched, the registry before the step (before), the registry
\* right after this call's sweep (swept) and the clock reading (t).
Event(op, p, status, create_new, id, before, swept) ==
    [op |-> op, task |-> p, status |-> status, create_new |-> create_new,
     id |-> id, before |-> before, swept |-> swept, t |-> now]

NoEvent(op) == Event(op, "t1", "ok", FALSE, NoId, <<>>, <<>>)

\* an exception: its class, which message it carries and its status_code
\* (NoStatus stands for None)
NoStatus == 0

Exc(type, message, status_code) ==
    [type |-> type, message |-> message, status_code |-> status_code]

NoError == Exc("none", "", NoStatus)

\* no tool invocation is being handled (init_failed_before: an earlier
\* invocation returned from the lazy initialisation with an error)
CallIdle ==
    [pc |-> "idle", name |-> "", text |-> <<>>, create_new |-> FALSE,
     conversation_id |-> NoId, opens |-> 0, sends |-> 0,
     result |-> "none", error |-> NoError, remote_status |-> NoStatus,
     store0 |-> <<>>, init_failed_before |-> FALSE]

\* OneCMcpServer.__init__: config and api_client are None
ToolIdle ==
    /\ server = [config |-> "None", api_client |-> FALSE]
    /\ call = CallIdle

Idle == [pc |-> "idle", create_new |-> FALSE, conversation_id |-> NoId,
         seen |-> <<>>]

\* ----------------------------------------------------------------- Init

ParseIdle ==
    /\ lines = <<>>
    /\ pos = 0
    /\ full_text = <<>>
    /\ parse_pc = "done"
    /\ answer = <<>>

Init ==
    /\ sessions = <<>>
    /\ now = 0
    /\ next_uuid = 1
    /\ max_active_sessions \in 1..MaxCap
    /\ session_ttl \in 1..MaxTTL
    /\ task = [p \in Tasks |-> Idle]
    /\ last = NoEvent("init")
    /\ ParseIdle
    /\ ToolIdle

\* ---------------------------------------------------------------- clock

Tick ==
    /\ now < MaxTime
    /\ now' = now + 1
    /\ last' = [NoEvent("tick") EXCEPT !.t = now + 1]
    /\ UNCHANGED <<sessions, next_uuid, max_active_sessions, session_ttl, task>>
    /\ UNCHANGED parseVars
    /\ UNCHANGED toolVars

\* ------------------------------------------------ get_or_create_session

\* variant: the create_new flag is not consulted
TakesCreatePathIgnoringFlag(create_new, d) == d = <<>>

\* variant: an empty registry is not sent to the create path
TakesCreatePathOnlyOnFlag(create_new, d) == create_new

\* if create_new or not self.sessions:            (api_client.py:178)
TakesCreatePath(create_new, d) == create_new \/ d = <<>>

\* variant: the most recent session is chosen before the eviction
EvictAndPickStale(d, cap) ==
    LET evicted == IF Len(d) >= cap THEN DelKey(d, OldestSessionId(d))
                   ELSE d
    IN  [sessions |-> evicted,
         status   |-> IF evicted = <<>> THEN "ValueError" ELSE "ok",
         id       |-> IF evicted = <<>> THEN NoId
                      ELSE RecentSessionId(d)]

\* The reuse path: evict the oldest session when the limit is reached, then
\* pick the most recent one; max() of an empty dict raises ValueError.
\*                                                (api_client.py:181-197)
EvictAndPick(d, cap) ==
    LET evicted == IF Len(d) >= cap THEN DelKey(d, OldestSessionId(d))
                   ELSE d
    IN  [sessions |-> evicted,
         status   |-> IF evicted = <<>> THEN "ValueError" ELSE "ok",
         id       |-> IF evicted = <<>> THEN NoId
                      ELSE RecentSessionId(evicted)]

\* The part of get_or_create_session that runs without suspending: the
\* sweep, the decision, and on the reuse path the eviction and the choice
\* of the most recent session.  On the create path the coroutine suspends
\* in create_conversation on the POST.            (api_client.py:174-197)
GetOrCreateSession(p, create_new) ==
    /\ task[p].pc = "idle"
    /\ LET swept == CleanupOldSessions(sessions, now, session_ttl)
       IN  IF TakesCreatePath(create_new, swept)
           THEN /\ sessions' = swept
                /\ task' = [task EXCEPT ![p] =
                               [pc |-> "create_conversation",
                                create_new |-> create_new,
                                conversation_id |-> NoId,
                                seen |-> swept]]
                /\ last' = Event("get_or_create_session", p, "pending",
                                 create_new, NoId, sessions, swept)
           ELSE LET r == EvictAndPick(swept, max_active_sessions)
                IN  /\ sessions' = r.sessions
                    /\ task' = [task EXCEPT ![p] = Idle]
                    /\ last' = Event("get_or_create_session", p, r.status,
                                     create_new, r.id, sessions, swept)
    /\ UNCHANGED <<now, next_uuid, max_active_sessions, session_ttl>>
    /\ UNCHANGED parseVars
    /\ UNCHANGED toolVars

\* create_conversation after the POST answered 200 with a new uuid: the
\* session is stored and the id returned.         (api_client.py:72-81)
CreateConversationOk(p) ==
    /\ task[p].pc = "create_conversation"
    /\ next_uuid <= MaxIds
    /\ LET conversation_id == next_uuid
       IN  /\ sessions' = SetKey(sessions, conversation_id,
                                 ConversationSession(conversation_id, now))
           /\ last' = Event("create_conversation", p, "ok",
                            task[p].create_new, conversation_id,
                            sessions, task[p].seen)
    /\ next_uuid' = next_uuid + 1
    /\ task' = [task EXCEPT ![p] = Idle]
    /\ UNCHANGED <<now, max_active_sessions, session_ttl>>
    /\ UNCHANGED parseVars
    /\ UNCHANGED toolVars

\* variant: the eviction of the reuse path runs when the creation fails
CreateConversationFailEvicting(p) ==
    /\ task[p].pc = "create_conversation"
    /\ last' = Event("create_conversation", p, "ApiError",
                     task[p].create_new, NoId, sessions, task[p].seen)
    /\ task' = [task EXCEPT ![p] = Idle]
    /\ sessions' = IF Len(sessions) >= max_active_sessions
                   THEN DelKey(sessions, OldestSessionId(sessions))
                   ELSE sessions
    /\ UNCHANGED <<now, next_uuid, max_active_sessions, session_ttl>>
    /\ UNCHANGED parseVars
    /\ UNCHANGED toolVars

\* create_conversation when the POST fails (status != 200, network error,
\* undecodable body): ApiError, nothing stored.   (api_client.py:66-70,83-86)
CreateConversationFail(p) ==
    /\ task[p].pc = "create_conversation"
    /\ last' = Event("create_conversation", p, "ApiError",
                     task[p].create_new, NoId, sessions, task[p].seen)
    /\ task' = [task EXCEPT ![p] = Idle]
    /\ UNCHANGED <<sessions, now, next_uuid, max_active_sessions, session_ttl>>
    /\ UNCHANGED parseVars
    /\ UNCHANGED toolVars

\* --------------------------------------------------------- send_message

\* variant: the session is replaced by a new one on every use
TouchRecreating(d, id, t) == SetKey(d, id, ConversationSession(id, t))

\* variant: the usage of a session already present is not updated
TouchOnlyInserting(d, id, t) ==
    IF id \notin Keys(d)
    THEN SetKey(d, id, ConversationSession(id, t))
    ELSE d

\* The bookkeeping at the start of send_message: a missing session is
\* inserted, then its usage is updated.           (api_client.py:91-98)
Touch(d, id, t) ==
    LET d1 == IF id \notin Keys(d)
              THEN SetKey(d, id, ConversationSession(id, t))
              ELSE d
    IN  SetKey(d1, id, update_usage(d1[IndexOf(d1, id)], t))

\* send_message up to the suspension on the streamed POST.
SendMessage(p, id) ==
    /\ task[p].pc = "idle"
    /\ id \in 1..(next_uuid - 1)
    /\ sessions' = Touch(sessions, id, now)
    /\ task' = [task EXCEPT ![p] =
                   [pc |-> "send_message", create_new |-> FALSE,
                    conversation_id |-> id,
                    seen |-> Touch(sessions, id, now)]]
    /\ last' = Event("touch", p, "pending", FALSE, id, sessions, <<>>)
    /\ UNCHANGED <<now, next_uuid, max_active_sessions, session_ttl>>
    /\ UNCHANGED parseVars
    /\ UNCHANGED toolVars

\* variant: a failed or abandoned send_message removes the touched session
SendMessageDoneRollingBack(p, status) ==
    /\ task[p].pc = "send_message"
    /\ last' = Event("send_message", p, status, FALSE,
                     task[p].conversation_id, sessions, task[p].seen)
    /\ task' = [task EXCEPT ![p] = Idle]
    /\ sessions' = IF status # "ok" /\ task[p].conversation_id \in Keys(sessions)
                   THEN DelKey(sessions, task[p].conversation_id)
                   ELSE sessions
    /\ UNCHANGED <<now, next_uuid, max_active_sessions, session_ttl>>
    /\ UNCHANGED parseVars
    /\ UNCHANGED toolVars

\* send_message after the stream was answered (status "ok": the parsed text
\* is returned; "ApiError": the request failed; "cancelled": the caller
\* abandoned the await); the registry is not touched again.
\*                                                (api_client.py:105-127)
SendMessageDone(p, status) ==
    /\ task[p].pc = "send_message"
    /\ last' = Event("send_message", p, status, FALSE,
                     task[p].conversation_id, sessions, task[p].seen)
    /\ task' = [task EXCEPT ![p] = Idle]
    /\ UNCHANGED <<sessions, now, next_uuid, max_active_sessions, session_ttl>>
    /\ UNCHANGED parseVars
    /\ UNCHANGED toolVars

\* ====================================================== session claims

\* get_or_create_session has returned (an id, or by raising)
AcquireReturned ==
    \/ last.op = "get_or_create_session" /\ last.status # "pending"
    \/ last.op = "create_conversation"

\* get_or_create_session has returned an id
AcquireReturnedId == AcquireReturned /\ last.status = "ok"

\* the step just taken ran the expiry sweep
SweepRan == last.op = "get_or_create_session"

Entries(d) == {d[i] : i \in 1..Len(d)}

Age(s, t) == t - s.last_used

\* C1 - Eviction bound: immediately after every acquire
\* (get_or_create_session, create_new true or false) and every touch (the
\* bookkeeping at the start of send_message) the registry holds at most
\* max_active_sessions entries.
C1_EvictionBound ==
    (AcquireReturned \/ last.op = "touch")
        => Len(sessions) <= max_active_sessions

\* C2 - TTL property: a sweep observing time t removes exactly the entries
\* with t - last_used > session_ttl and leaves every other entry as it was,
\* in its place; so no entry left has an age above the TTL at t, and an
\* entry whose age equals the TTL is kept.
C2_TTLProperty ==
    SweepRan =>
        /\ Entries(last.swept) =
               {s \in Entries(last.before) : Age(s, last.t) <= session_ttl}
        /\ Len(last.swept) = Cardinality(Entries(last.swept))
        /\ \A i, j \in 1..Len(last.swept) :
               i < j => IndexOf(last.before, last.swept[i].conversation_id)
                          < IndexOf(last.before, last.swept[j].conversation_id)
        /\ \A s \in Entries(last.swept) : Age(s, last.t) <= session_ttl
        /\ last.status = "pending" => sessions = last.swept

\* a sweep that removed an entry older than the TTL and kept one whose age
\* is exactly the TTL
C2_Witness ==
    /\ SweepRan
    /\ \E s \in Entries(last.before) :
           Age(s, last.t) > session_ttl /\ s \notin Entries(sessions)
    /\ \E s \in Entries(last.before) :
           Age(s, last.t) = session_ttl /\ s \in Entries(sessions)

\* C3 - Guarantee of acquire: an id returned by get_or_create_session is a
\* key of the registry right after the call.
C3_ReturnedIdPresent ==
    AcquireReturnedId => last.id \in Keys(sessions)

\* the reuse path returned an id in a call that evicted an entry
C3_Witness ==
    /\ AcquireReturnedId
    /\ last.op = "get_or_create_session"
    /\ Len(last.swept) >= max_active_sessions
    /\ Len(sessions) < Len(last.swept)
    /\ last.id \in Keys(sessions)

\* C4 - Recency selection: get_or_create_session(create_new=False) on a
\* registry that is non-empty after the sweep returns, without opening a
\* conversation, the id of an entry with the largest last_used among the
\* entries left after the eviction.
C4_RecencySelection ==
    (last.op = "get_or_create_session" /\ last.status # "pending")
        => /\ last.status = "ok"
           /\ last.id \in Keys(sessions)
           /\ \A s \in Entries(sessions) :
                  s.last_used <= sessions[IndexOf(sessions, last.id)].last_used

\* C5 - Force-new bypass: get_or_create_session(create_new=True) that
\* returns an id returns the id just issued by its own openConversation,
\* registered in the registry, and never the id of an entry that existed.
C5_ForceNewBypass ==
    (AcquireReturnedId /\ last.create_new)
        => /\ last.op = "create_conversation"
           /\ last.id = next_uuid - 1
           /\ last.id \in Keys(sessions)
           /\ last.id \notin Keys(last.before)
           /\ last.id \notin Keys(last.swept)

\* create_new=True returned a new id while other, non-expired sessions exist
C5_Witness ==
    /\ AcquireReturnedId
    /\ last.create_new
    /\ last.swept # <<>>
    /\ last.id \in Keys(sessions)
    /\ last.id \notin Keys(last.swept)

\* C6 - Concurrent atomicity of acquire: when a caller's insertion takes
\* effect the registry is still the one the caller observed when it decided
\* to create: no other caller has mutated it in between.
C6_AcquireAtomic ==
    (last.op = "create_conversation" /\ last.status = "ok")
        => last.before = last.swept

\* the entry of key k in the dict
EntryOf(d, k) == d[IndexOf(d, k)]

\* C14 - Acquire never fails for absence: get_or_create_session(
\* create_new=False) returns an id or fails with the ApiError of
\* openConversation; it never raises an empty-collection error.
C14_AcquireNeverFailsForAbsence ==
    (AcquireReturned /\ ~last.create_new)
        => last.status \in {"ok", "ApiError"}

\* C16 - Session timestamp invariant: every entry has
\* last_used >= created_at, and no step changes the created_at of an entry
\* that stays in the registry.
C16_TimestampInvariant ==
    /\ \A s \in Entries(sessions) : s.last_used >= s.created_at
    /\ \A s \in Entries(sessions) : \A b \in Entries(last.before) :
           b.conversation_id = s.conversation_id
               => b.created_at = s.created_at

\* a session created earlier has just been used again
C16_Witness ==
    /\ last.op = "touch"
    /\ last.id \in Keys(last.before)
    /\ EntryOf(sessions, last.id).last_used
           > EntryOf(sessions, last.id).created_at
    /\ EntryOf(sessions, last.id).created_at
           = EntryOf(last.before, last.id).created_at

\* C17 - Touch with self-healing: after the bookkeeping of send_message(id)
\* the id is in the registry with last_used = now; created_at is unchanged
\* if it was present and now if it was absent; every other entry is as
\* before.
C17_TouchSelfHealing ==
    last.op = "touch" =>
        /\ last.id \in Keys(sessions)
        /\ EntryOf(sessions, last.id).last_used = last.t
        /\ IF last.id \in Keys(last.before)
           THEN /\ EntryOf(sessions, last.id).created_at
                       = EntryOf(last.before, last.id).created_at
                /\ Len(sessions) = Len(last.before)
           ELSE /\ EntryOf(sessions, last.id).created_at = last.t
                /\ Len(sessions) = Len(last.before) + 1
        /\ {s \in Entries(sessions) : s.conversation_id # last.id}
               = {s \in Entries(last.before) : s.conversation_id # last.id}

\* an id absent from a non-empty registry was touched and inserted
C17_Witness ==
    /\ last.op = "touch"
    /\ last.before # <<>>
    /\ last.id \notin Keys(last.before)
    /\ last.id \in Keys(sessions)

\* the sequence d without its i-th element
Without(d, i) == SubSeq(d, 1, i - 1) \o SubSeq(d, i + 1, Len(d))

\* C18 - Eviction step: on the reuse path, with the population after the
\* sweep at or above max_active_sessions exactly one entry is removed, the
\* first in iteration order among those with the smallest last_used; below
\* the maximum none is removed.  The create path evicts nothing and inserts
\* exactly one entry.
C18_EvictionStep ==
    /\ (last.op = "get_or_create_session" /\ last.status # "pending") =>
           IF Len(last.swept) >= max_active_sessions
           THEN \E i \in 1..Len(last.swept) :
                    /\ sessions = Without(last.swept, i)
                    /\ \A j \in 1..Len(last.swept) :
                           last.swept[i].last_used <= last.swept[j].last_used
                    /\ \A j \in 1..(i - 1) :
                           last.swept[j].last_used > last.swept[i].last_used
           ELSE sessions = last.swept
    /\ (last.op = "get_or_create_session" /\ last.status = "pending") =>
           sessions = last.swept
    /\ (last.op = "create_conversation" /\ last.status = "ok") =>
           /\ Len(sessions) = Len(last.before) + 1
           /\ Entries(last.before) \subseteq Entries(sessions)
    /\ (last.op = "create_conversation" /\ last.status # "ok") =>
           sessions = last.before

\* of two entries with different last_used the older one was evicted and
\* the newer one returned
C18_Witness ==
    /\ last.op = "get_or_create_session"
    /\ last.status = "ok"
    /\ Len(last.swept) = 2
    /\ Len(sessions) = 1
    /\ \E s \in Entries(last.swept) :
           /\ s \notin Entries(sessions)
           /\ s.last_used < sessions[1].last_used

\* C19 - Empty store creates: with the registry empty after the sweep
\* get_or_create_session takes the create path whatever create_new is, and
\* on success the new id is the only entry of the registry.
C19_EmptyStoreCreates ==
    /\ (last.op = "get_or_create_session" /\ last.swept = <<>>)
           => last.status = "pending" /\ sessions = <<>>
    /\ (last.op = "create_conversation" /\ last.status = "ok"
            /\ last.swept = <<>>)
           => /\ last.id = next_uuid - 1
              /\ sessions = <<ConversationSession(last.id, last.t)>>

\* create_new=False created a second conversation because the sweep (or an
\* eviction) had left the registry empty
C19_Witness ==
    /\ last.op = "create_conversation"
    /\ last.status = "ok"
    /\ ~last.create_new
    /\ last.swept = <<>>
    /\ last.id > 1
    /\ Keys(sessions) = {last.id}

\* C20 - Touch is not rolled back: when send_message ends, by returning,
\* with ApiError or abandoned, the registry is the one its bookkeeping left:
\* the id is present with the last_used the touch gave it, and the end of
\* the stream changes no entry.
C20_TouchNotRolledBack ==
    last.op = "send_message" =>
        /\ sessions = last.before
        /\ sessions = last.swept
        /\ last.id \in Keys(sessions)
        /\ EntryOf(sessions, last.id).last_used <= last.t

\* a send_message that failed or was abandoned left its session touched
C20_Witness ==
    /\ last.op = "send_message"
    /\ last.status # "ok"
    /\ last.id \in Keys(sessions)
    /\ EntryOf(sessions, last.id).last_used > 0

\* create_conversation has failed in the step just taken
CreationFailed == last.op = "create_conversation" /\ last.status = "ApiError"

\* C23 - Failed creation leaves the store unchanged: when the POST of
\* create_conversation fails, no id is returned, no entry is inserted and
\* none is evicted: the registry is the one the failed call found, which is
\* the registry left by the sweep of the get_or_create_session that called
\* it.
C23_FailedCreationNoChange ==
    CreationFailed =>
        /\ last.id = NoId
        /\ sessions = last.before
        /\ sessions = last.swept
        /\ task[last.task].pc = "idle"

\* the creation failed for create_new=True while the registry was at its
\* limit: nothing was evicted
C23_Witness ==
    /\ CreationFailed
    /\ last.create_new
    /\ sessions # <<>>
    /\ Len(sessions) >= max_active_sessions
    /\ sessions = last.swept

\* ================================================== _parse_sse_response

\* Characters: "H", "i" ordinary, " " whitespace, "U" a lone surrogate (what
\* json.loads makes of "\ud800"), which UTF-8 cannot encode.
Whitespace  == {" "}
Unencodable == {"U"}

Texts == { <<>>, <<"H">>, <<"i", " ">>, <<"U">> }

\* A line of the stream.
\*   kind    "blank" | "other" (no "data: " prefix) | "data"
\*   json    what json.loads / MessageChunk(**data) make of the payload:
\*           "invalid" (JSONDecodeError), "badshape" (validation error),
\*           "chunk" (a MessageChunk)
\*   content "none" (no content), "notext" (content without a text key),
\*           "nonstr" (text is a truthy non-string), "text" (text is a string)
Line(kind, json, role, content, text, finished) ==
    [kind |-> kind, json |-> json, role |-> role, content |-> content,
     text |-> text, finished |-> finished]

NonDataLines ==
    { Line("blank", "none", "", "none", <<>>, FALSE),
      Line("other", "none", "", "none", <<>>, FALSE) }

MalformedLines ==
    { Line("data", "invalid", "", "none", <<>>, FALSE),
      Line("data", "badshape", "", "none", <<>>, TRUE) }

ChunkLines ==
    { Line("data", "chunk", "assistant", "text", t, f) :
          t \in Texts, f \in BOOLEAN }
    \cup { Line("data", "chunk", "assistant", c, <<>>, f) :
          c \in {"none", "notext", "nonstr"}, f \in BOOLEAN }
    \cup { Line("data", "chunk", "user", "none", <<>>, f) : f \in BOOLEAN }
    \cup { Line("data", "chunk", "user", "text", <<"H">>, f) : f \in BOOLEAN }

Lines == NonDataLines \cup MalformedLines \cup ChunkLines

\* line.startswith("data: ")                       (api_client.py:137)
StartsWithData(line) == line.kind = "data"

\* text.encode('utf-8', errors='ignore').decode('utf-8', errors='ignore'):
\* the characters UTF-8 cannot encode are dropped.  (api_client.py:152)
Normalize(text) == SelectSeq(text, LAMBDA c : c \notin Unencodable)

RECURSIVE LStrip(_)
LStrip(text) ==
    IF text # <<>> /\ Head(text) \in Whitespace THEN LStrip(Tail(text))
    ELSE text

RECURSIVE RStrip(_)
RStrip(text) ==
    IF text # <<>> /\ text[Len(text)] \in Whitespace
    THEN RStrip(SubSeq(text, 1, Len(text) - 1))
    ELSE text

\* full_text.strip()                               (api_client.py:165)
Strip(text) == RStrip(LStrip(text))

\* the chunk carries an assistant snapshot: role "assistant" and a non-empty
\* string under content["text"]
IsSnapshot(line) ==
    /\ line.kind = "data"
    /\ line.json = "chunk"
    /\ line.role = "assistant"
    /\ line.content = "text"
    /\ line.text # <<>>

\* variant: a snapshot is appended to the accumulator
ProcessLineAppending(acc, line) ==
    IF ~StartsWithData(line)
    THEN [full_text |-> acc, brk |-> FALSE]
    ELSE IF line.json = "invalid"
    THEN [full_text |-> acc, brk |-> FALSE]
    ELSE IF line.json = "badshape"
    THEN [full_text |-> acc, brk |-> FALSE]
    ELSE IF line.role = "assistant" /\ line.content \in {"text", "nonstr"}
    THEN IF line.content = "nonstr"
         THEN [full_text |-> acc, brk |-> FALSE]
         ELSE [full_text |-> IF line.text # <<>> THEN acc \o Normalize(line.text)
                             ELSE acc,
               brk |-> line.finished]
    ELSE [full_text |-> acc, brk |-> FALSE]

\* variant: a payload that fails to decode ends the consumption
ProcessLineAbortingOnMalformed(acc, line) ==
    IF ~StartsWithData(line)
    THEN [full_text |-> acc, brk |-> FALSE]
    ELSE IF line.json = "invalid"
    THEN [full_text |-> acc, brk |-> TRUE]
    ELSE IF line.json = "badshape"
    THEN [full_text |-> acc, brk |-> FALSE]
    ELSE IF line.role = "assistant" /\ line.content \in {"text", "nonstr"}
    THEN IF line.content = "nonstr"
         THEN [full_text |-> acc, brk |-> FALSE]
         ELSE [full_text |-> IF line.text # <<>> THEN Normalize(line.text)
                             ELSE acc,
               brk |-> line.finished]
    ELSE [full_text |-> acc, brk |-> FALSE]

\* variant: a line without the prefix clears the accumulator
ProcessLineResettingOnOther(acc, line) ==
    IF ~StartsWithData(line)
    THEN [full_text |-> <<>>, brk |-> FALSE]
    ELSE IF line.json = "invalid"
    THEN [full_text |-> acc, brk |-> FALSE]
    ELSE IF line.json = "badshape"
    THEN [full_text |-> acc, brk |-> FALSE]
    ELSE IF line.role = "assistant" /\ line.content \in {"text", "nonstr"}
    THEN IF line.content = "nonstr"
         THEN [full_text |-> acc, brk |-> FALSE]
         ELSE [full_text |-> IF line.text # <<>> THEN Normalize(line.text)
                             ELSE acc,
               brk |-> line.finished]
    ELSE [full_text |-> acc, brk |-> FALSE]

\* variant: an empty text replaces the accumulator as well
ProcessLineTakingEmptyText(acc, line) ==
    IF ~StartsWithData(line)
    THEN [full_text |-> acc, brk |-> FALSE]
    ELSE IF line.json = "invalid"
    THEN [full_text |-> acc, brk |-> FALSE]
    ELSE IF line.json = "badshape"
    THEN [full_text |-> acc, brk |-> FALSE]
    ELSE IF line.role = "assistant" /\ line.content \in {"text", "nonstr"}
    THEN IF line.content = "nonstr"
         THEN [full_text |-> acc, brk |-> FALSE]
         ELSE [full_text |-> Normalize(line.text),
               brk |-> line.finished]
    ELSE [full_text |-> acc, brk |-> FALSE]

\* One iteration of the loop body on the accumulator acc: the new
\* accumulator and whether the loop breaks.       (api_client.py:137-163)
ProcessLine(acc, line) ==
    IF ~StartsWithData(line)
    THEN [full_text |-> acc, brk |-> FALSE]
    ELSE IF line.json = "invalid"
    THEN [full_text |-> acc, brk |-> FALSE]      \* except JSONDecodeError
    ELSE IF line.json = "badshape"
    THEN [full_text |-> acc, brk |-> FALSE]      \* except Exception
    ELSE IF line.role = "assistant" /\ line.content \in {"text", "nonstr"}
    THEN IF line.content = "nonstr"
         THEN [full_text |-> acc, brk |-> FALSE] \* text.encode raises
         ELSE [full_text |-> IF line.text # <<>> THEN Normalize(line.text)
                             ELSE acc,
               brk |-> line.finished]
    ELSE [full_text |-> acc, brk |-> FALSE]

RECURSIVE ConsumeFrom(_, _)
\* the loop over the remaining lines ls, starting with accumulator acc
ConsumeFrom(acc, ls) ==
    IF ls = <<>> THEN acc
    ELSE LET r == ProcessLine(acc, Head(ls))
         IN  IF r.brk THEN r.full_text
             ELSE ConsumeFrom(r.full_text, Tail(ls))

\* _parse_sse_response as a function of the whole line sequence
ParseSSE(ls) == Strip(ConsumeFrom(<<>>, ls))

StoreIdle ==
    /\ sessions = <<>>
    /\ now = 0
    /\ next_uuid = 1
    /\ max_active_sessions = 1
    /\ session_ttl = 1
    /\ task = [p \in Tasks |-> Idle]
    /\ last = NoEvent("init")

LineSeqs == UNION { [1..n -> Lines] : n \in 0..MaxLines }

InitParse ==
    /\ StoreIdle
    /\ ToolIdle
    /\ lines \in LineSeqs
    /\ pos = 0
    /\ full_text = <<>>
    /\ parse_pc = "loop"
    /\ answer = <<>>

\* async for line in response.aiter_lines(): one iteration
ParseLine ==
    /\ parse_pc = "loop"
    /\ pos < Len(lines)
    /\ LET r == ProcessLine(full_text, lines[pos + 1])
       IN  /\ full_text' = r.full_text
           /\ parse_pc' = IF r.brk THEN "break" ELSE "loop"
    /\ pos' = pos + 1
    /\ UNCHANGED <<lines, answer>>
    /\ UNCHANGED storeVars
    /\ UNCHANGED toolVars

\* return full_text.strip(), after the stream ended or the loop broke
ParseReturn ==
    /\ \/ parse_pc = "loop" /\ pos = Len(lines)
       \/ parse_pc = "break"
    /\ answer' = Strip(full_text)
    /\ parse_pc' = "done"
    /\ UNCHANGED <<lines, pos, full_text>>
    /\ UNCHANGED storeVars
    /\ UNCHANGED toolVars

NextParse ==
    \/ ParseLine
    \/ ParseReturn

SpecParse == InitParse /\ [][NextParse]_vars

\* ======================================================= stream claims

\* a "data: " line that decodes to a well-formed event
IsQualifying(line) == line.kind = "data" /\ line.json = "chunk"

\* a "data: " line whose payload fails to decode, lacks required fields or
\* has them in the wrong shape
IsMalformed(line) ==
    /\ line.kind = "data"
    /\ \/ line.json \in {"invalid", "badshape"}
       \/ line.json = "chunk" /\ line.content = "nonstr"

\* the snapshot lines among the lines read so far
SnapshotsRead == {i \in 1..pos : IsSnapshot(lines[i])}

LastOf(S) == CHOOSE i \in S : \A j \in S : j <= i

\* C7 (as stated) - the accumulator is the text of the last snapshot line
\* read, or empty when no snapshot line was read.
C7_SnapshotVerbatim ==
    full_text = IF SnapshotsRead = {} THEN <<>>
                ELSE lines[LastOf(SnapshotsRead)].text

\* C7 - Stream snapshot replacement: the accumulator is the re-encoded text
\* (the characters UTF-8 cannot encode dropped) of the last snapshot line
\* read, never a concatenation of earlier texts, or empty when no snapshot
\* line was read; every other line leaves it unchanged.
C7_SnapshotReplacement ==
    full_text = IF SnapshotsRead = {} THEN <<>>
                ELSE Normalize(lines[LastOf(SnapshotsRead)].text)

\* two snapshots with different texts were read and the second one won
C7_Witness ==
    /\ parse_pc = "done"
    /\ \E i, j \in SnapshotsRead :
           /\ i < j
           /\ j = LastOf(SnapshotsRead)
           /\ Normalize(lines[i].text) # <<>>
           /\ Normalize(lines[j].text) # Normalize(lines[i].text)
           /\ full_text = Normalize(lines[j].text)

\* C8 - Finished stops consumption: no line is read after a qualifying line
\* with finished = true, whatever its role or content.
C8_FinishedStops ==
    \A i \in 1..pos :
        (IsQualifying(lines[i]) /\ lines[i].finished) => pos = i

\* C9 - Malformed line tolerance: a malformed line never ends the loop, and
\* the answer is that of the same sequence without its malformed lines.
C9_MalformedTolerance ==
    /\ (pos >= 1 /\ IsMalformed(lines[pos])) => parse_pc # "break"
    /\ parse_pc = "done" =>
           answer = ParseSSE(SelectSeq(lines, LAMBDA l : ~IsMalformed(l)))

\* a payload that fails to decode was read between two snapshots and the
\* answer is the later snapshot
C9_Witness ==
    /\ parse_pc = "done"
    /\ pos = 3
    /\ IsSnapshot(lines[1])
    /\ lines[2].kind = "data" /\ lines[2].json = "invalid"
    /\ IsSnapshot(lines[3])
    /\ lines[1].text # lines[3].text
    /\ answer = Strip(Normalize(lines[3].text))
    /\ answer # <<>>

\* C10 - Non-qualifying lines are ignored: a line without the prefix never
\* ends the loop, the answer is that of the sequence restricted to its
\* prefixed lines, and without any prefixed line the answer is empty.
C10_NonDataIgnored ==
    /\ (pos >= 1 /\ ~StartsWithData(lines[pos])) => parse_pc # "break"
    /\ parse_pc = "done" =>
           /\ answer = ParseSSE(SelectSeq(lines, StartsWithData))
           /\ (\A i \in 1..Len(lines) : ~StartsWithData(lines[i]))
                  => answer = <<>>

\* a blank line was read after a snapshot and the snapshot is the answer
C10_Witness ==
    /\ parse_pc = "done"
    /\ pos >= 2
    /\ IsSnapshot(lines[1])
    /\ \A i \in 2..pos : ~StartsWithData(lines[i])
    /\ answer = Strip(Normalize(lines[1].text))
    /\ answer # <<>>

\* the qualifying lines of the whole sequence with finished = true
FinishedLines ==
    {i \in 1..Len(lines) : IsQualifying(lines[i]) /\ lines[i].finished}

FirstOf(S) == CHOOSE i \in S : \A j \in S : i <= j

\* C22 - Termination of consume: the lines are read one by one in order,
\* each at most once; when _parse_sse_response has returned, it has read
\* the whole sequence if no qualifying line has finished = true, and
\* otherwise exactly the prefix ending at the first such line, and the
\* answer is the accumulator at that point, trimmed.
C22_ConsumeTerminates ==
    /\ pos \in 0..Len(lines)
    /\ parse_pc = "done" =>
           /\ pos = IF FinishedLines = {} THEN Len(lines)
                    ELSE FirstOf(FinishedLines)
           /\ answer = Strip(full_text)

\* the line just read is an assistant line whose content has a text key
\* with an empty value and whose finished flag is set
EmptyFinalRead ==
    /\ pos >= 1
    /\ lines[pos].kind = "data"
    /\ lines[pos].json = "chunk"
    /\ lines[pos].role = "assistant"
    /\ lines[pos].content = "text"
    /\ lines[pos].text = <<>>
    /\ lines[pos].finished

\* C24 (as stated) - after a final assistant line with an empty text the
\* loop has stopped and the answer is the text (trimmed) of the most recent
\* earlier snapshot line, or empty when there is none.
C24_FinalEmptyKeepsVerbatim ==
    EmptyFinalRead =>
        /\ parse_pc # "loop"
        /\ parse_pc = "done" =>
               answer = IF SnapshotsRead = {} THEN <<>>
                        ELSE Strip(lines[LastOf(SnapshotsRead)].text)

\* C24 - Final chunk with empty text keeps the last snapshot: after a final
\* assistant line with an empty text the loop has stopped, the accumulator
\* is not cleared, and the answer is the re-encoded text (trimmed) of the
\* most recent earlier snapshot line, or empty when there is none.
C24_FinalEmptyKeepsSnapshot ==
    EmptyFinalRead =>
        /\ parse_pc # "loop"
        /\ parse_pc = "done" =>
               answer = IF SnapshotsRead = {} THEN <<>>
                        ELSE Strip(Normalize(
                                 lines[LastOf(SnapshotsRead)].text))

\* a snapshot, then the final line with an empty text, then a line that
\* is not read: the answer is the snapshot
C24_Witness ==
    /\ parse_pc = "done"
    /\ EmptyFinalRead
    /\ pos = 2
    /\ Len(lines) = 3
    /\ IsSnapshot(lines[1])
    /\ answer = lines[1].text
    /\ answer # <<>>

\* ====================================================== handle_call_tool

ToolNames == {"ask_1c_ai", "explain_1c_syntax", "check_1c_code"}

\* names a host may send: the three tools and one unknown name
CallNames == ToolNames \cup {"other"}

\* question / syntax_element / code supplied by the host
CallTexts == { <<>>, <<" ">>, <<"H">> }

\* What get_config() yields: a validation error (ONEC_AI_TOKEN missing), or
\* a Config whose max_active_sessions and session_ttl are the integers found
\* in the environment; the fields carry no constraint.  (config.py:57-73)
ConfigOutcomes ==
    { [ok |-> FALSE, max_active_sessions |-> 0, session_ttl |-> 0] }
    \cup { [ok |-> TRUE, max_active_sessions |-> m, session_ttl |-> t] :
               m \in (0 - 1)..MaxCap, t \in (0 - 1)..MaxTTL }

\* How the remote service answers a request: with a status code, or not at
\* all (network failure), or with 200 and a body that cannot be decoded.
RemoteOutcomes ==
    { [kind |-> "ok",      status |-> 200],
      [kind |-> "status",  status |-> 500],
      [kind |-> "network", status |-> NoStatus],
      [kind |-> "decode",  status |-> 200] }

\* the exception raised inside the try block for a remote outcome
\*   status:  raise ApiError(f"...: {status_code}", status_code)
\*   network: httpx.RequestError raised by the client
\*   decode:  response.json() / ConversationResponse(**...) raises
\*                                         (api_client.py:66-72, 112-116)
RaisedInTry(outcome) ==
    IF outcome.kind = "status"
    THEN Exc("ApiError", "status", outcome.status)
    ELSE IF outcome.kind = "network"
    THEN Exc("RequestError", "network", NoStatus)
    ELSE Exc("Exception", "decode", NoStatus)

\* variant: an ApiError raised inside the try block is re-raised as it is
LeavesTryKeepingApiError(exc) ==
    IF exc.type = "RequestError"
    THEN Exc("ApiError", "network", NoStatus)
    ELSE IF exc.type = "ApiError" THEN exc
    ELSE Exc("ApiError", "unexpected", NoStatus)

\* The except clauses of create_conversation and send_message: RequestError
\* and every other Exception, ApiError included, are replaced by a new
\* ApiError built from a message alone.   (api_client.py:83-86, 124-127)
LeavesTry(exc) ==
    IF exc.type = "RequestError"
    THEN Exc("ApiError", "network", NoStatus)
    ELSE Exc("ApiError", "unexpected", NoStatus)

\* the except clauses of handle_call_tool      (mcp_server.py:173-184)
ErrorText(exc) ==
    IF exc.type = "ApiError" THEN "api_error" ELSE "unexpected_error"

\* variant: only the empty string is rejected
IsBlankOnlyIfEmpty(text) == text = <<>>

\* not question.strip()                        (mcp_server.py:192,220,248)
IsBlank(text) == Strip(text) = <<>>

\* handle_call_tool returns a text
Return(c, result, exc) ==
    [c EXCEPT !.pc = "idle", !.result = result, !.error = exc]

\* variant: a failed remote call sends the invocation back to acquire
FailCallRetrying(c, exc) == [c EXCEPT !.pc = "acquire"]

\* an exception reaches the except clauses of handle_call_tool and the
\* invocation returns the error text
FailCall(c, exc) == Return(c, ErrorText(exc), exc)

\* variant: a failed get_config() leaves a configuration object behind
EnsureInitialisedKeepingFailedConfig(srv, cfg, client_ok) ==
    IF srv.config = "None" /\ ~cfg.ok
    THEN [server |-> [srv EXCEPT !.config = "set"],
          outcome |-> "config_error"]
    ELSE LET srv1 == [srv EXCEPT !.config = "set"]
         IN  IF ~srv1.api_client /\ ~client_ok
             THEN [server |-> srv1, outcome |-> "client_error"]
             ELSE [server |-> [srv1 EXCEPT !.api_client = TRUE],
                   outcome |-> "ok"]

\* The lazy initialisation at the top of handle_call_tool: config, then
\* api_client, each only if still None.         (mcp_server.py:141-158)
EnsureInitialised(srv, cfg, client_ok) ==
    IF srv.config = "None" /\ ~cfg.ok
    THEN [server |-> srv, outcome |-> "config_error"]
    ELSE LET srv1 == [srv EXCEPT !.config = "set"]
         IN  IF ~srv1.api_client /\ ~client_ok
             THEN [server |-> srv1, outcome |-> "client_error"]
             ELSE [server |-> [srv1 EXCEPT !.api_client = TRUE],
                   outcome |-> "ok"]

\* the dispatch on the tool name and the blank test of the three handlers
\*                              (mcp_server.py:161-171, 192-196, 220, 248)
Dispatch(name, text) ==
    IF name \notin ToolNames THEN "unknown_tool"
    ELSE IF IsBlank(text) THEN "empty_input"
    ELSE "proceed"

InitTool ==
    /\ sessions = <<>>
    /\ now = 0
    /\ next_uuid = 1
    /\ max_active_sessions = 0
    /\ session_ttl = 0
    /\ task = [p \in Tasks |-> Idle]
    /\ last = NoEvent("init")
    /\ ParseIdle
    /\ ToolIdle

\* handle_call_tool(name, arguments) up to the call of
\* get_or_create_session.                       (mcp_server.py:135-202)
ToolCall(name, text, create_new, cfg, client_ok) ==
    /\ call.pc = "idle"
    /\ LET init == EnsureInitialised(server, cfg, client_ok)
           c0   == [CallIdle EXCEPT
                       !.name = name, !.text = text,
                       !.create_new = (name = "ask_1c_ai" /\ create_new),
                       !.store0 = sessions,
                       !.init_failed_before =
                           \/ call.init_failed_before
                           \/ call.result \in {"config_error",
                                                "client_error"}]
           d    == Dispatch(name, text)
       IN  /\ server' = init.server
           /\ IF server.config = "None" /\ cfg.ok
              THEN /\ max_active_sessions' = cfg.max_active_sessions
                   /\ session_ttl' = cfg.session_ttl
              ELSE UNCHANGED <<max_active_sessions, session_ttl>>
           /\ call' = IF init.outcome # "ok"
                      THEN Return(c0, init.outcome, NoError)
                      ELSE IF d # "proceed"
                      THEN Return(c0, d, NoError)
                      ELSE [c0 EXCEPT !.pc = "acquire"]
    /\ UNCHANGED <<sessions, now, next_uuid, task, last>>
    /\ UNCHANGED parseVars

\* get_or_create_session called by the handler: the sweep, then either the
\* POST of create_conversation is issued or the reuse path returns an id or
\* raises.                (mcp_server.py:199-202, api_client.py:174-197)
ToolAcquire ==
    /\ call.pc = "acquire"
    /\ LET swept == CleanupOldSessions(sessions, now, session_ttl)
       IN  IF TakesCreatePath(call.create_new, swept)
           THEN /\ sessions' = swept
                /\ call' = [call EXCEPT !.pc = "create_conversation",
                                        !.opens = @ + 1]
           ELSE LET r == EvictAndPick(swept, max_active_sessions)
                IN  /\ sessions' = r.sessions
                    /\ call' = IF r.status = "ok"
                               THEN [call EXCEPT !.pc = "send",
                                                 !.conversation_id = r.id]
                               ELSE FailCall(call,
                                        Exc(r.status, "empty", NoStatus))
    /\ UNCHANGED <<now, next_uuid, max_active_sessions, session_ttl, task,
                   last, server>>
    /\ UNCHANGED parseVars

\* the POST of create_conversation is answered (api_client.py:60-86)
ToolOpenResponse(outcome) ==
    /\ call.pc = "create_conversation"
    /\ IF outcome.kind = "ok"
       THEN /\ next_uuid <= MaxIds
            /\ sessions' = SetKey(sessions, next_uuid,
                                  ConversationSession(next_uuid, now))
            /\ next_uuid' = next_uuid + 1
            /\ call' = [call EXCEPT !.pc = "send",
                                    !.conversation_id = next_uuid,
                                    !.remote_status = outcome.status]
       ELSE /\ call' = FailCall(
                           [call EXCEPT !.remote_status = outcome.status],
                           LeavesTry(RaisedInTry(outcome)))
            /\ UNCHANGED <<sessions, next_uuid>>
    /\ UNCHANGED <<now, max_active_sessions, session_ttl, task, last, server>>
    /\ UNCHANGED parseVars

\* send_message called by the handler: the bookkeeping, then the streamed
\* POST is issued.        (mcp_server.py:205, api_client.py:91-110)
ToolSend ==
    /\ call.pc = "send"
    /\ sessions' = Touch(sessions, call.conversation_id, now)
    /\ call' = [call EXCEPT !.pc = "send_message", !.sends = @ + 1]
    /\ UNCHANGED <<now, next_uuid, max_active_sessions, session_ttl, task,
                   last, server>>
    /\ UNCHANGED parseVars

\* the streamed POST is answered and the handler returns the answer or the
\* error text.            (api_client.py:112-127, mcp_server.py:207-213)
ToolSendResponse(outcome) ==
    /\ call.pc = "send_message"
    /\ outcome.kind # "decode"
    /\ call' = IF outcome.kind = "ok"
               THEN Return([call EXCEPT !.remote_status = outcome.status],
                           "answer", NoError)
               ELSE FailCall([call EXCEPT !.remote_status = outcome.status],
                             LeavesTry(RaisedInTry(outcome)))
    /\ UNCHANGED <<sessions, now, next_uuid, max_active_sessions, session_ttl,
                   task, last, server>>
    /\ UNCHANGED parseVars

\* The inputs of an invocation, with one representative for those the
\* handler does not read: create_new_session is read by ask_1c_ai only,
\* get_config() is called only while config is None, OneCApiClient is
\* constructed only while api_client is None.
CreateNewInputs(name) == IF name = "ask_1c_ai" THEN BOOLEAN ELSE {FALSE}

ConfigInputs ==
    IF server.config = "None" THEN ConfigOutcomes
    ELSE {[ok |-> TRUE, max_active_sessions |-> max_active_sessions,
           session_ttl |-> session_ttl]}

ClientInputs == IF server.api_client THEN {TRUE} ELSE BOOLEAN

NextTool ==
    \/ Tick
    \/ \E name \in CallNames, text \in CallTexts :
           \E create_new \in CreateNewInputs(name), cfg \in ConfigInputs,
              client_ok \in ClientInputs :
               ToolCall(name, text, create_new, cfg, client_ok)
    \/ ToolAcquire
    \/ \E outcome \in RemoteOutcomes : ToolOpenResponse(outcome)
    \/ ToolSend
    \/ \E outcome \in RemoteOutcomes : ToolSendResponse(outcome)

\* Tool invocations handled one after the other by handle_call_tool.
SpecTool == InitTool /\ [][NextTool]_vars

\* ========================================================= tool claims

\* handle_call_tool has returned its text for the invocation in `call`
Returned == call.pc = "idle" /\ call.result # "none"

\* the text supplied is empty or whitespace only
BlankText(text) == \A i \in 1..Len(text) : text[i] \in Whitespace

\* C11 - Empty input rejection: an invocation of one of the three tools with
\* a blank text, once config and client are there, returns the empty-input
\* error without any openConversation or sendMessage, and leaves the
\* registry as it found it.
C11_EmptyInputRejected ==
    (/\ call.result \notin {"none", "config_error", "client_error"}
     /\ call.name \in ToolNames
     /\ BlankText(call.text))
        => /\ call.result = "empty_input"
           /\ call.pc = "idle"
           /\ call.opens = 0
           /\ call.sends = 0
           /\ call.conversation_id = NoId
           /\ sessions = call.store0

\* a whitespace-only text was rejected while the registry held a session
C11_Witness ==
    /\ Returned
    /\ call.result = "empty_input"
    /\ call.text = <<" ">>
    /\ call.store0 # <<>>
    /\ sessions = call.store0

\* C12 - No automatic retry: an invocation issues at most one
\* openConversation and at most one sendMessage, sendMessage only with an id
\* that acquire returned, and a failed remote call ends the invocation with
\* the failure text and no further remote call.
C12_NoRetry ==
    /\ call.opens <= 1
    /\ call.sends <= 1
    /\ call.sends = 1 => call.conversation_id # NoId
    /\ call.error.type # "none" =>
           /\ call.pc = "idle"
           /\ call.result \in {"api_error", "unexpected_error"}
    /\ (call.error.type # "none" /\ call.conversation_id = NoId) =>
           call.sends = 0

\* openConversation failed: the invocation ended after that single call
C12_Witness ==
    /\ Returned
    /\ call.result = "api_error"
    /\ call.opens = 1
    /\ call.sends = 0

\* C13 - Remote failures surface with their status: when the remote service
\* answers with a non-success status code, the ApiError that reaches
\* handle_call_tool carries that status code and the original message.
C13_StatusSurfaces ==
    (/\ Returned
     /\ call.error.type = "ApiError"
     /\ call.remote_status \notin {NoStatus, 200})
        => /\ call.error.status_code = call.remote_status
           /\ call.error.message = "status"

\* C15 - Configuration validation: a loaded configuration has a positive
\* session_ttl and a positive max_active_sessions.
C15_ConfigValidated ==
    server.config = "set"
        => max_active_sessions > 0 /\ session_ttl > 0

\* the texts handle_call_tool can return
ResultTexts ==
    {"config_error", "client_error", "unknown_tool", "empty_input",
     "answer", "api_error", "unexpected_error"}

\* C21 - Configuration errors are contained: an invocation in which
\* get_config() or the construction of OneCApiClient fails returns its error
\* text without any openConversation or sendMessage and with the registry
\* as it found it; what failed is still unset afterwards, so the next
\* invocation runs the initialisation again; and every invocation that has
\* ended has returned one of the texts.
C21_ConfigErrorsContained ==
    /\ call.result \in {"config_error", "client_error"} =>
           /\ call.pc = "idle"
           /\ call.opens = 0
           /\ call.sends = 0
           /\ call.conversation_id = NoId
           /\ call.error = NoError
           /\ sessions = call.store0
           /\ ~server.api_client
    /\ call.result = "config_error" => server.config = "None"
    /\ call.result = "client_error" => server.config = "set"
    /\ (call.pc = "idle" /\ call.name # "") => call.result \in ResultTexts
    /\ call.pc # "idle" => (server.config = "set" /\ server.api_client)

\* an invocation got its answer from the remote service after an earlier
\* invocation had failed in the initialisation
C21_Witness ==
    /\ Returned
    /\ call.init_failed_before
    /\ call.result = "answer"
    /\ server.config = "set"
    /\ server.api_client

\* ----------------------------------------------------------------- Next

TaskNext(p) ==
    \/ \E create_new \in BOOLEAN : GetOrCreateSession(p, create_new)
    \/ CreateConversationOk(p)
    \/ CreateConversationFail(p)
    \/ \E id \in 1..MaxIds : SendMessage(p, id)
    \/ \E status \in {"ok", "ApiError", "cancelled"} :
           SendMessageDone(p, status)

\* One caller at a time: every operation returns before the next is called,
\* and the clock advances between the steps.
Next ==
    \/ Tick
    \/ TaskNext("t1")

Spec == Init /\ [][Next]_vars

\* Several tool invocations in flight: the callers interleave at the points
\* where a coroutine awaits the remote service (within one clock reading).
NextConc == \E p \in Tasks : TaskNext(p)

SpecConc == Init /\ [][NextConc]_vars

====
